---- MODULE Spec2Model ----
(***************************************************************************)
(* State-machine model of the MajikAPI credential entity                   *)
(* (src/src/majik-api.ts) and of its validation helpers                    *)
(* (src/unnamed/part_000, imported by the class as "./utils").             *)
(*                                                                         *)
(* Texts are sequences of one-character strings, " " standing for any     *)
(* whitespace character.  An optional value (undefined / null) is the      *)
(* empty set and a present value v is the singleton {v}.  A Date is its    *)
(* millisecond time value.                                                 *)
(***************************************************************************)
EXTENDS Integers, Sequences, FiniteSets, TLC

\* ------------------------------------------------------------------------
\*  Bounds
\* ------------------------------------------------------------------------

\* longest text a caller passes as a secret (create, rotate, verify)
MaxLen == 2

\* last clock value the model reaches
MaxTime == 3

\* ------------------------------------------------------------------------
\*  Texts
\* ------------------------------------------------------------------------

Chars == {"a", " "}

Texts == UNION {[1..n -> Chars] : n \in 0..MaxLen}

Undefined == {}

Null == {}

\* the value of a present optional
The(opt) == CHOOSE x \in opt : TRUE

RECURSIVE TrimStart(_)
TrimStart(s) == IF s # <<>> /\ Head(s) = " " THEN TrimStart(Tail(s)) ELSE s

RECURSIVE TrimEnd(_)
TrimEnd(s) ==
  IF s # <<>> /\ s[Len(s)] = " " THEN TrimEnd(SubSeq(s, 1, Len(s) - 1)) ELSE s

\* String.prototype.trim
Trim(s) == TrimEnd(TrimStart(s))

\* assertString: passes iff the value is non-empty after trimming
assertString(value) == Trim(value) # <<>>

\* assertPositiveInteger: passes iff the value is an integer >= 1
assertPositiveInteger(value) == value \in Int /\ value >= 1

\* assertRateLimitFrequency
assertRateLimitFrequency(value) == value \in {"seconds", "minutes", "hours"}

\* sha256 followed by arrayToBase64: a one-way digest, modelled as an
\* injective encoding whose results are never caller texts themselves
sha256(input) == <<"#">> \o input

\* ------------------------------------------------------------------------
\*  Dates
\* ------------------------------------------------------------------------

\* new Date(0).getTime()
Epoch == 0

Times == 0..(MaxTime + 1)

\* Date.prototype.toISOString: the ISO text of a time value
toISOString(t) == [kind |-> "iso", ms |-> t]

\* new Date(text).getTime(): the time value, or nothing (NaN) when the text
\* does not parse.  "other" is a non-ISO text that Date still parses.
DateParse(text) ==
  IF text.kind \in {"iso", "other"} THEN {text.ms} ELSE {}

\* whether a date text is empty after trimming
DateTextBlank(text) == text.kind = "blank"

isValidISODate(value) == DateParse(value) # {}

\* date texts a caller may pass
DateTexts ==
  [kind : {"iso", "other"}, ms : Times]
    \cup {[kind |-> "garbage", ms |-> 0], [kind |-> "blank", ms |-> 0]}

\* Date objects a caller may pass: a time value, or an invalid Date (NaN)
DateObjects ==
  [kind : {"date"}, ms : Times] \cup {[kind |-> "nandate", ms |-> 0]}

\* parseDate: the parsed time value, or nothing when it throws
parseDate(value) ==
  IF value.kind = "date" THEN {value.ms}
  ELSE IF value.kind = "nandate" THEN {}
  ELSE IF isValidISODate(value) THEN DateParse(value)
  ELSE {}

\* ------------------------------------------------------------------------
\*  IP and domain validators
\* ------------------------------------------------------------------------

Digits == {"0", "1", "2", "3", "4", "5", "6", "7", "8", "9"}

HexLetters == {"a", "b", "c", "d", "e", "f", "A", "B", "C", "D", "E", "F"}

Letters ==
  {"a", "b", "c", "d", "e", "f", "g", "h", "i", "j", "k", "l", "m",
   "n", "o", "p", "q", "r", "s", "t", "u", "v", "w", "x", "y", "z",
   "A", "B", "C", "D", "E", "F", "G", "H", "I", "J", "K", "L", "M",
   "N", "O", "P", "Q", "R", "S", "T", "U", "V", "W", "X", "Y", "Z"}

DigitValue(c) ==
  CASE c = "0" -> 0 [] c = "1" -> 1 [] c = "2" -> 2 [] c = "3" -> 3
    [] c = "4" -> 4 [] c = "5" -> 5 [] c = "6" -> 6 [] c = "7" -> 7
    [] c = "8" -> 8 [] c = "9" -> 9
    [] c \in {"a", "A"} -> 10 [] c \in {"b", "B"} -> 11
    [] c \in {"c", "C"} -> 12 [] c \in {"d", "D"} -> 13
    [] c \in {"e", "E"} -> 14 [] c \in {"f", "F"} -> 15

\* String.prototype.split with a one-character separator
RECURSIVE Split(_, _)
Split(s, sep) ==
  IF \E i \in 1..Len(s) : s[i] = sep
  THEN LET i == CHOOSE j \in 1..Len(s) :
                  s[j] = sep /\ \A k \in 1..(j - 1) : s[k] # sep
       IN  <<SubSeq(s, 1, i - 1)>> \o Split(SubSeq(s, i + 1, Len(s)), sep)
  ELSE <<s>>

\* value of a digit string in the given radix
RECURSIVE RadixValue(_, _)
RadixValue(s, radix) ==
  IF s = <<>> THEN 0
  ELSE RadixValue(SubSeq(s, 1, Len(s) - 1), radix) * radix + DigitValue(s[Len(s)])

\* longest prefix of s made of characters of set
RECURSIVE TakeWhile(_, _)
TakeWhile(s, set) ==
  IF s # <<>> /\ Head(s) \in set
  THEN <<Head(s)>> \o TakeWhile(Tail(s), set)
  ELSE <<>>

\* parseInt(text) without a radix: the integer, or nothing for NaN
parseInt(text) ==
  LET t    == TrimStart(text)
      neg  == t # <<>> /\ Head(t) = "-"
      body == IF t # <<>> /\ Head(t) \in {"-", "+"} THEN Tail(t) ELSE t
      hex  == Len(body) >= 2 /\ body[1] = "0" /\ body[2] \in {"x", "X"}
      ds   == IF hex THEN TakeWhile(SubSeq(body, 3, Len(body)), Digits \cup HexLetters)
              ELSE TakeWhile(body, Digits)
      v    == RadixValue(ds, IF hex THEN 16 ELSE 10)
  IN  IF ds = <<>> THEN {} ELSE {IF neg THEN 0 - v ELSE v}

isValidIPv4(ip) ==
  LET octets == Split(ip, ".")
  IN  /\ Len(octets) = 4
      /\ \A i \in 1..4 :
           /\ Len(octets[i]) \in 1..3
           /\ \A j \in 1..Len(octets[i]) : octets[i][j] \in Digits
      /\ \A i \in 1..4 : \A v \in parseInt(octets[i]) : v <= 255

isValidIPv6(ip) ==
  /\ ip # <<>>
  /\ \A i \in 1..Len(ip) : ip[i] \in Digits \cup HexLetters \cup {":"}
  /\ \E i \in 1..Len(ip) : ip[i] = ":"

isValidCIDR(cidr) ==
  LET parts  == Split(cidr, "/")
      ip     == parts[1]
      prefix == IF Len(parts) >= 2 THEN parts[2] ELSE <<>>
  IN  /\ prefix # <<>>
      /\ \E p \in parseInt(prefix) :
           \/ isValidIPv4(ip) /\ p >= 0 /\ p <= 32
           \/ isValidIPv6(ip) /\ p >= 0 /\ p <= 128

\* validateIP: passes iff it does not throw
validateIP(ip) == isValidIPv4(ip) \/ isValidIPv6(ip) \/ isValidCIDR(ip)

\* one label [a-zA-Z0-9]([a-zA-Z0-9\-]{0,61}[a-zA-Z0-9])?
IsFirstLabel(l) ==
  /\ Len(l) \in 1..63
  /\ l[1] \in Letters \cup Digits
  /\ l[Len(l)] \in Letters \cup Digits
  /\ \A i \in 1..Len(l) : l[i] \in Letters \cup Digits \cup {"-"}

isValidDomain(domain) ==
  LET wild   == Len(domain) >= 2 /\ domain[1] = "*" /\ domain[2] = "."
      rest   == IF wild THEN SubSeq(domain, 3, Len(domain)) ELSE domain
      labels == Split(rest, ".")
  IN  \/ /\ Len(labels) >= 2
         /\ IsFirstLabel(labels[1])
         /\ \A i \in 2..Len(labels) :
              /\ Len(labels[i]) >= 2
              /\ \A j \in 1..Len(labels[i]) : labels[i][j] \in Letters
      \/ domain = <<"*">>

\* validateDomain: passes iff it does not throw
validateDomain(domain) == isValidDomain(domain)

\* ------------------------------------------------------------------------
\*  Settings
\* ------------------------------------------------------------------------

\* ./constants is not part of the sources; the default is the documented
\* one (100 requests per minute)
DEFAULT_RATE_LIMIT == [amount |-> 100, frequency |-> "minutes"]

\* ./constants is not part of the sources; the ceiling is the documented
\* one (500 requests per minute)
MAX_RATE_LIMIT == [amount |-> 500, frequency |-> "minutes"]

\* ./constants is not part of the sources; the multipliers are the
\* documented ones (seconds: 1/60, minutes: 1, hours: 60), each kept as an
\* exact fraction
TO_MINUTES ==
  [seconds |-> [num |-> 1, den |-> 60],
   minutes |-> [num |-> 1, den |-> 1],
   hours   |-> [num |-> 60, den |-> 1]]

\* object spread { ...base, ...over }
Spread(base, over) ==
  [k \in DOMAIN base \cup DOMAIN over |->
     IF k \in DOMAIN over THEN over[k] ELSE base[k]]

\* overrides?.key ?? fallback
Coalesce(overrides, key, fallback) ==
  IF key \in DOMAIN overrides THEN overrides[key] ELSE fallback

buildDefaultSettings(overrides) ==
  [rateLimit |->
     Spread(DEFAULT_RATE_LIMIT, Coalesce(overrides, "rateLimit", <<>>)),
   ipWhitelist |->
     Spread([enabled |-> FALSE, addresses |-> <<>>],
            Coalesce(overrides, "ipWhitelist", <<>>)),
   domainWhitelist |->
     Spread([enabled |-> FALSE, domains |-> <<>>],
            Coalesce(overrides, "domainWhitelist", <<>>)),
   allowedMethods |-> Coalesce(overrides, "allowedMethods", <<>>),
   metadata |-> Coalesce(overrides, "metadata", <<>>),
   quota |-> Coalesce(overrides, "quota", Null)]

\* validateSettings: passes iff it does not throw
validateSettings(s) ==
  /\ assertPositiveInteger(s.rateLimit.amount)
  /\ assertRateLimitFrequency(s.rateLimit.frequency)
  /\ s.ipWhitelist.enabled \in BOOLEAN
  /\ \A i \in 1..Len(s.ipWhitelist.addresses) :
       validateIP(s.ipWhitelist.addresses[i])
  /\ s.domainWhitelist.enabled \in BOOLEAN
  /\ \A i \in 1..Len(s.domainWhitelist.domains) :
       validateDomain(s.domainWhitelist.domains[i])

\* structuredClone: a deep copy, which for a value is the value itself
structuredClone(v) == v

\* ------------------------------------------------------------------------
\*  Identifier generation
\* ------------------------------------------------------------------------

\* the v4 UUIDs the random generator can produce
UUIDs == {<<"uuid-1">>, <<"uuid-2">>, <<"uuid-3">>}

\* generateID: a random UUID.  All the program relies on is that it is not
\* an identifier already in use; which one it is makes no difference, so
\* the least unused one stands for it (the result is a one-element set)
generateID(used) == {CHOOSE u \in UUIDs \ used : TRUE}

\* ------------------------------------------------------------------------
\*  State
\* ------------------------------------------------------------------------

VARIABLES
  id,           \* _id
  owner_id,     \* _owner_id
  name,         \* _name
  api_key,      \* _api_key: the stored hash
  raw_api_key,  \* _raw_api_key: {} when undefined
  timestamp,    \* _timestamp
  restricted,   \* _restricted
  valid_until,  \* _valid_until: {} when null
  settings,     \* _settings
  now,          \* the clock read by new Date() / Date.now()
  origin,       \* "none" before construction, then "create" or "fromJSON"
  rotated,      \* whether rotate() has succeeded on the instance
  revoked,      \* whether revoke() has been called on the instance
  op,           \* the last operation and whether it returned normally
  part,         \* the composite part of an instance that is followed
  heap,         \* the objects of that part: arrays, plain objects, Dates
  instances,    \* per instance, the object its field refers to
  input,        \* the object the caller passed in, if any
  got,          \* the object the caller last received from a getter, if any
  actor         \* who acted last: an instance or the caller

\* the state of the objects that several holders can refer to
references == <<part, heap, instances, input, got, actor>>

fields ==
  <<id, owner_id, name, api_key, raw_api_key, timestamp, restricted,
    valid_until, settings>>

vars == <<fields, now, origin, rotated, revoked, op, references>>

Done(opname, ok) == [name |-> opname, ok |-> ok]

\* the constructor: assigns every field
MajikAPI(i, o, n, k, t, r, v, s, raw) ==
  /\ id' = i
  /\ owner_id' = o
  /\ name' = n
  /\ api_key' = k
  /\ timestamp' = t
  /\ restricted' = r
  /\ valid_until' = v
  /\ settings' = s
  /\ raw_api_key' = raw

\* a throwing call: nothing but the record of the call changes
Throws(opname) ==
  /\ op' = Done(opname, FALSE)
  /\ UNCHANGED <<references, fields, now, origin, rotated, revoked>>

\* ------------------------------------------------------------------------
\*  Objects and references
\* ------------------------------------------------------------------------

\* An array, a plain object or a Date is an object that several holders can
\* refer to.  The settings object and its rateLimit, ipWhitelist and
\* domainWhitelist objects are built by object literals and by
\* structuredClone, so no two holders share them; the objects that can be
\* shared are the ones below them.  They do not refer to each other, so one
\* of them is followed at a time.

\* objects that exist at the same time: the caller's input, one per
\* instance, and the value a getter returned
MaxRefs == 4

\* longest array the model lets an instance or the caller build by pushing
MaxItems == 2

\* null, or no object
NoRef == 0

\* the two instances a caller builds from the same input
Names == {"x", "y"}

\* the parts of an instance that are arrays
ArrayParts == {"addresses", "domains", "allowedMethods"}

\* an object: an array ([...items]), a plain object ({ ...props }), a Date
\* (new Date(ms)), or a place no object is at ("free")
Cell(kind, items, props, ms) ==
  [kind |-> kind, items |-> items, props |-> props, ms |-> ms]

Init ==
  /\ id = <<>>
  /\ owner_id = <<>>
  /\ name = <<>>
  /\ api_key = <<>>
  /\ raw_api_key = Undefined
  /\ timestamp = 0
  /\ restricted = FALSE
  /\ valid_until = Null
  /\ settings = buildDefaultSettings(<<>>)
  /\ now = 1
  /\ origin = "none"
  /\ rotated = FALSE
  /\ revoked = FALSE
  /\ op = Done("init", TRUE)
  /\ part = "none"
  /\ heap = [r \in 1..MaxRefs |-> Cell("free", <<>>, <<>>, 0)]
  /\ instances = [i \in Names |-> [built |-> FALSE, ref |-> NoRef]]
  /\ input = NoRef
  /\ got = NoRef
  /\ actor = "none"

\* ------------------------------------------------------------------------
\*  Pure queries on the instance
\* ------------------------------------------------------------------------

\* the instance as one record
self ==
  [id |-> id, owner_id |-> owner_id, name |-> name, api_key |-> api_key,
   raw_api_key |-> raw_api_key, timestamp |-> timestamp,
   restricted |-> restricted, valid_until |-> valid_until,
   settings |-> settings]

\* verify hashing the stored hash once more before comparing
verify_Rehash(text) ==
  IF Trim(text) = <<>> THEN {} ELSE {sha256(Trim(text)) = sha256(api_key)}

\* verify(text): nothing when it throws, else the boolean it returns
verify(text) ==
  IF Trim(text) = <<>> THEN {} ELSE {sha256(Trim(text)) = api_key}

\* isExpired with the comparison turned round
isExpired_UntilExpiry ==
  IF valid_until = Null THEN FALSE
  ELSE \E v \in valid_until : now < v

\* isExpired that is already true at the expiry instant
isExpired_AtExpiry ==
  IF valid_until = Null THEN FALSE
  ELSE \E v \in valid_until : now >= v

isExpired ==
  IF valid_until = Null THEN FALSE
  ELSE \E v \in valid_until : now > v

\* isActive looking at the restricted flag only
isActive_IgnoresExpiry == ~restricted

isActive == ~isExpired /\ ~restricted

\* msUntilExpiry without the clamp at zero
msUntilExpiry_Unclamped ==
  IF valid_until = Null THEN 0 - 1
  ELSE The(valid_until) - now

\* get msUntilExpiry
msUntilExpiry ==
  IF valid_until = Null THEN 0 - 1
  ELSE LET remaining == The(valid_until) - now
       IN  IF remaining > 0 THEN remaining ELSE 0

\* status testing the restricted flag before the expiry
status_RestrictedFirst ==
  IF valid_until = {Epoch} THEN "revoked"
  ELSE IF restricted THEN "restricted"
  ELSE IF isExpired THEN "expired"
  ELSE "active"

status ==
  IF valid_until = {Epoch} THEN "revoked"
  ELSE IF isExpired THEN "expired"
  ELSE IF restricted THEN "restricted"
  ELSE "active"

\* toJSON that also copies the plaintext key
toJSON_WithRaw(this) ==
  [id |-> this.id,
   owner_id |-> this.owner_id,
   name |-> this.name,
   api_key |-> this.api_key,
   raw_api_key |-> this.raw_api_key,
   timestamp |-> toISOString(this.timestamp),
   restricted |-> {this.restricted},
   valid_until |-> {toISOString(v) : v \in this.valid_until},
   settings |-> {structuredClone(this.settings)}]

\* toJSON testing the time value of valid_until, which is falsy at the epoch
toJSON_EpochNull(this) ==
  [id |-> this.id,
   owner_id |-> this.owner_id,
   name |-> this.name,
   api_key |-> this.api_key,
   timestamp |-> toISOString(this.timestamp),
   restricted |-> {this.restricted},
   valid_until |-> {toISOString(v) : v \in this.valid_until \ {0}},
   settings |-> {structuredClone(this.settings)}]

\* toJSON() of the instance this; a field of the record that fromJSON
\* type-checks (restricted, settings) is a present optional
toJSON(this) ==
  [id |-> this.id,
   owner_id |-> this.owner_id,
   name |-> this.name,
   api_key |-> this.api_key,
   timestamp |-> toISOString(this.timestamp),
   restricted |-> {this.restricted},
   valid_until |-> {toISOString(v) : v \in this.valid_until},
   settings |-> {structuredClone(this.settings)}]

\* ------------------------------------------------------------------------
\*  Factories
\* ------------------------------------------------------------------------

\* options.name ?? "Unnamed Key"
DefaultName == <<"Unnamed Key">>

\* identifiers the generator must not repeat: the ones this instance holds
InUse == {id} \cup raw_api_key \cup {u \in UUIDs : sha256(u) = api_key}

\* static create(ownerID, text?, options)
create(ownerID, text, options) ==
  /\ origin = "none"
  /\ LET nm      == IF options.name = Undefined THEN DefaultName
                    ELSE The(options.name)
         r       == IF options.restricted = Undefined THEN FALSE
                    ELSE The(options.restricted)
         hasDate == options.valid_until # Null
         vu      == IF hasDate THEN parseDate(The(options.valid_until))
                    ELSE Null
         st      == buildDefaultSettings(options.settings)
         passes  == /\ assertString(ownerID)
                    /\ \A t \in text : Trim(t) # <<>>
                    /\ Trim(nm) # <<>>
                    /\ hasDate => (vu # {} /\ \A v \in vu : v > now)
                    /\ validateSettings(st)
     IN  IF passes
         THEN \E rawKey \in (IF text # Undefined THEN {Trim(The(text))}
                             ELSE generateID({})) :
                \E newId \in generateID({rawKey}) :
                  /\ MajikAPI(newId, Trim(ownerID), Trim(nm), sha256(rawKey),
                              now, r, vu, st, {rawKey})
                  /\ origin' = "create"
                  /\ op' = Done("create", TRUE)
                  /\ UNCHANGED <<references, now, rotated, revoked>>
         ELSE Throws("create")

\* the instance fromJSON(data) returns, or nothing when it throws
fromJSONObject(data) ==
  LET hasDate == data.valid_until # Null
      passes  == /\ assertString(data.id)
                 /\ assertString(data.owner_id)
                 /\ assertString(data.name)
                 /\ assertString(data.api_key)
                 /\ ~DateTextBlank(data.timestamp)
                 /\ isValidISODate(data.timestamp)
                 /\ data.restricted # Undefined
                 /\ hasDate =>
                      /\ ~DateTextBlank(The(data.valid_until))
                      /\ isValidISODate(The(data.valid_until))
                 /\ data.settings # Null
                 /\ validateSettings(buildDefaultSettings(The(data.settings)))
  IN  IF passes
      THEN {[id |-> data.id,
             owner_id |-> data.owner_id,
             name |-> data.name,
             api_key |-> data.api_key,
             timestamp |-> The(DateParse(data.timestamp)),
             restricted |-> The(data.restricted),
             valid_until |-> IF hasDate THEN DateParse(The(data.valid_until))
                             ELSE Null,
             settings |-> buildDefaultSettings(The(data.settings)),
             raw_api_key |-> Undefined]}
      ELSE {}

\* fromJSON handing the stored key to the constructor as the raw key
fromJSON_RestoresRaw(data) ==
  /\ origin = "none"
  /\ IF fromJSONObject(data) # {}
     THEN LET this == The(fromJSONObject(data))
          IN  /\ MajikAPI(this.id, this.owner_id, this.name, this.api_key,
                          this.timestamp, this.restricted, this.valid_until,
                          this.settings, {this.api_key})
              /\ origin' = "fromJSON"
              /\ op' = Done("fromJSON", TRUE)
              /\ UNCHANGED <<references, now, rotated, revoked>>
     ELSE Throws("fromJSON")

\* static fromJSON(data)
fromJSON(data) ==
  /\ origin = "none"
  /\ IF fromJSONObject(data) # {}
     THEN LET this == The(fromJSONObject(data))
          IN  /\ MajikAPI(this.id, this.owner_id, this.name, this.api_key,
                          this.timestamp, this.restricted, this.valid_until,
                          this.settings, this.raw_api_key)
              /\ origin' = "fromJSON"
              /\ op' = Done("fromJSON", TRUE)
              /\ UNCHANGED <<references, now, rotated, revoked>>
     ELSE Throws("fromJSON")

\* ------------------------------------------------------------------------
\*  Key rotation and lifecycle mutators
\* ------------------------------------------------------------------------

\* rotate that also issues a new id
rotate_NewId(text) ==
  /\ origin # "none"
  /\ IF \E t \in text : Trim(t) = <<>>
     THEN Throws("rotate")
     ELSE \E rawKey \in (IF text # Undefined THEN {Trim(The(text))}
                         ELSE generateID(InUse)) :
            /\ api_key' = sha256(rawKey)
            /\ raw_api_key' = {rawKey}
            /\ id' \in generateID({id, rawKey})
            /\ rotated' = TRUE
            /\ op' = Done("rotate", TRUE)
            /\ UNCHANGED <<references, owner_id, name, timestamp, restricted,
                           valid_until, settings, now, origin, revoked>>

\* rotate that publishes the new raw key but keeps the old hash
rotate_KeepsHash(text) ==
  /\ origin # "none"
  /\ IF \E t \in text : Trim(t) = <<>>
     THEN Throws("rotate")
     ELSE \E rawKey \in (IF text # Undefined THEN {Trim(The(text))}
                         ELSE generateID(InUse)) :
            /\ raw_api_key' = {rawKey}
            /\ rotated' = TRUE
            /\ op' = Done("rotate", TRUE)
            /\ UNCHANGED <<references, id, owner_id, name, api_key, timestamp, restricted,
                           valid_until, settings, now, origin, revoked>>

\* rotate that stores the new hash but leaves the raw key as it was
rotate_KeepsRaw(text) ==
  /\ origin # "none"
  /\ IF \E t \in text : Trim(t) = <<>>
     THEN Throws("rotate")
     ELSE \E rawKey \in (IF text # Undefined THEN {Trim(The(text))}
                         ELSE generateID(InUse)) :
            /\ api_key' = sha256(rawKey)
            /\ rotated' = TRUE
            /\ op' = Done("rotate", TRUE)
            /\ UNCHANGED <<references, id, owner_id, name, raw_api_key, timestamp,
                           restricted, valid_until, settings, now, origin,
                           revoked>>

\* rotate(text?)
rotate(text) ==
  /\ origin # "none"
  /\ IF \E t \in text : Trim(t) = <<>>
     THEN Throws("rotate")
     ELSE \E rawKey \in (IF text # Undefined THEN {Trim(The(text))}
                         ELSE generateID(InUse)) :
            /\ api_key' = sha256(rawKey)
            /\ raw_api_key' = {rawKey}
            /\ rotated' = TRUE
            /\ op' = Done("rotate", TRUE)
            /\ UNCHANGED <<references, id, owner_id, name, timestamp, restricted,
                           valid_until, settings, now, origin, revoked>>

\* rename that also forgets the raw key
rename_ForgetsRaw(n) ==
  /\ origin # "none"
  /\ IF assertString(n)
     THEN /\ name' = Trim(n)
          /\ raw_api_key' = Undefined
          /\ op' = Done("rename", TRUE)
          /\ UNCHANGED <<references, id, owner_id, api_key, timestamp,
                         restricted, valid_until, settings, now, origin,
                         rotated, revoked>>
     ELSE Throws("rename")

\* rename(name)
rename(n) ==
  /\ origin # "none"
  /\ IF assertString(n)
     THEN /\ name' = Trim(n)
          /\ op' = Done("rename", TRUE)
          /\ UNCHANGED <<references, id, owner_id, api_key, raw_api_key, timestamp,
                         restricted, valid_until, settings, now, origin,
                         rotated, revoked>>
     ELSE Throws("rename")

\* the error setExpiry(date) throws at the current clock value, if any
setExpiryError(date) ==
  IF date = Null THEN {}
  ELSE IF parseDate(The(date)) = {} THEN {"TypeError"}
  ELSE IF The(parseDate(The(date))) <= now THEN {"RangeError"}
  ELSE {}

\* setExpiry that also accepts the current instant
setExpiry_AcceptsNow(date) ==
  /\ origin # "none"
  /\ LET parsed == IF date = Null THEN {} ELSE parseDate(The(date))
     IN  IF date # Null /\ (parsed = {} \/ \E v \in parsed : v < now)
         THEN Throws("setExpiry")
         ELSE /\ valid_until' = parsed
              /\ op' = Done("setExpiry", TRUE)
              /\ UNCHANGED <<references, id, owner_id, name, api_key, raw_api_key,
                             timestamp, restricted, settings, now, origin,
                             rotated, revoked>>

\* setExpiry(date | null)
setExpiry(date) ==
  /\ origin # "none"
  /\ LET parsed == IF date = Null THEN {} ELSE parseDate(The(date))
     IN  IF setExpiryError(date) # {}
         THEN Throws("setExpiry")
         ELSE /\ valid_until' = parsed
              /\ op' = Done("setExpiry", TRUE)
              /\ UNCHANGED <<references, id, owner_id, name, api_key, raw_api_key,
                             timestamp, restricted, settings, now, origin,
                             rotated, revoked>>

restrict ==
  /\ origin # "none"
  /\ restricted' = TRUE
  /\ op' = Done("restrict", TRUE)
  /\ UNCHANGED <<references, id, owner_id, name, api_key, raw_api_key, timestamp,
                 valid_until, settings, now, origin, rotated, revoked>>

\* unrestrict that also clears the expiry
unrestrict_ClearsExpiry ==
  /\ origin # "none"
  /\ restricted' = FALSE
  /\ valid_until' = Null
  /\ op' = Done("unrestrict", TRUE)
  /\ UNCHANGED <<references, id, owner_id, name, api_key, raw_api_key, timestamp,
                 settings, now, origin, rotated, revoked>>

unrestrict ==
  /\ origin # "none"
  /\ restricted' = FALSE
  /\ op' = Done("unrestrict", TRUE)
  /\ UNCHANGED <<references, id, owner_id, name, api_key, raw_api_key, timestamp,
                 valid_until, settings, now, origin, rotated, revoked>>

\* revoke that sets the epoch expiry only
revoke_ExpiryOnly ==
  /\ origin # "none"
  /\ valid_until' = {Epoch}
  /\ revoked' = TRUE
  /\ op' = Done("revoke", TRUE)
  /\ UNCHANGED <<references, id, owner_id, name, api_key, raw_api_key, timestamp,
                 restricted, settings, now, origin, rotated>>

revoke ==
  /\ origin # "none"
  /\ valid_until' = {Epoch}
  /\ restricted' = TRUE
  /\ revoked' = TRUE
  /\ op' = Done("revoke", TRUE)
  /\ UNCHANGED <<references, id, owner_id, name, api_key, raw_api_key, timestamp,
                 settings, now, origin, rotated>>

\* ------------------------------------------------------------------------
\*  IP and domain whitelists
\* ------------------------------------------------------------------------

\* Array.prototype.includes
Includes(list, x) == \E i \in 1..Len(list) : list[i] = x

\* Array.prototype.filter((a) => a !== x)
RECURSIVE Without(_, _)
Without(list, x) ==
  IF list = <<>> THEN <<>>
  ELSE IF Head(list) = x THEN Without(Tail(list), x)
  ELSE <<Head(list)>> \o Without(Tail(list), x)

\* Array.prototype.map((e) => e.trim())
TrimAll(list) == [i \in 1..Len(list) |-> Trim(list[i])]

\* the entries of list before the first one that fails the test
ValidPrefix(list, Test(_)) ==
  LET n == CHOOSE k \in 0..Len(list) :
             /\ \A i \in 1..k : Test(list[i])
             /\ k = Len(list) \/ ~Test(list[k + 1])
  IN  SubSeq(list, 1, n)

\* enableIPWhitelist that also empties the list
enableIPWhitelist_ClearsList ==
  /\ origin # "none"
  /\ settings' = [settings EXCEPT !.ipWhitelist =
                    [enabled |-> TRUE, addresses |-> <<>>]]
  /\ op' = Done("enableIPWhitelist", TRUE)
  /\ UNCHANGED <<references, id, owner_id, name, api_key, raw_api_key, timestamp,
                 restricted, valid_until, now, origin, rotated, revoked>>

enableIPWhitelist ==
  /\ origin # "none"
  /\ settings' = [settings EXCEPT !.ipWhitelist.enabled = TRUE]
  /\ op' = Done("enableIPWhitelist", TRUE)
  /\ UNCHANGED <<references, id, owner_id, name, api_key, raw_api_key, timestamp,
                 restricted, valid_until, now, origin, rotated, revoked>>

disableIPWhitelist ==
  /\ origin # "none"
  /\ settings' = [settings EXCEPT !.ipWhitelist.enabled = FALSE]
  /\ op' = Done("disableIPWhitelist", TRUE)
  /\ UNCHANGED <<references, id, owner_id, name, api_key, raw_api_key, timestamp,
                 restricted, valid_until, now, origin, rotated, revoked>>

\* addIP pushing without the membership test
addIP_NoMembershipTest(ip) ==
  /\ origin # "none"
  /\ IF assertString(ip) /\ validateIP(Trim(ip))
     THEN LET trimmed == Trim(ip)
          IN  /\ settings' =
                   [settings EXCEPT !.ipWhitelist.addresses = Append(@, trimmed)]
              /\ op' = Done("addIP", TRUE)
              /\ UNCHANGED <<references, id, owner_id, name, api_key, raw_api_key, timestamp,
                         restricted, valid_until, now, origin, rotated,
                         revoked>>
     ELSE Throws("addIP")

\* addIP(ip)
addIP(ip) ==
  /\ origin # "none"
  /\ IF assertString(ip) /\ validateIP(Trim(ip))
     THEN LET trimmed == Trim(ip)
          IN  /\ settings' =
                   [settings EXCEPT
                      !.ipWhitelist.addresses =
                        IF Includes(@, trimmed) THEN @ ELSE Append(@, trimmed)]
              /\ op' = Done("addIP", TRUE)
              /\ UNCHANGED <<references, id, owner_id, name, api_key, raw_api_key, timestamp,
                         restricted, valid_until, now, origin, rotated,
                         revoked>>
     ELSE Throws("addIP")

\* removeIP(ip)
removeIP(ip) ==
  /\ origin # "none"
  /\ IF assertString(ip)
     THEN /\ settings' =
               [settings EXCEPT !.ipWhitelist.addresses = Without(@, Trim(ip))]
          /\ op' = Done("removeIP", TRUE)
          /\ UNCHANGED <<references, id, owner_id, name, api_key, raw_api_key, timestamp,
                         restricted, valid_until, now, origin, rotated,
                         revoked>>
     ELSE Throws("removeIP")

\* setIPWhitelist validating and storing entry by entry
setIPWhitelist_EntryByEntry(addresses) ==
  /\ origin # "none"
  /\ LET valid == ValidPrefix(addresses, LAMBDA e : validateIP(Trim(e)))
     IN  /\ settings' = [settings EXCEPT !.ipWhitelist.addresses = TrimAll(valid)]
         /\ op' = Done("setIPWhitelist", Len(valid) = Len(addresses))
         /\ UNCHANGED <<references, id, owner_id, name, api_key, raw_api_key, timestamp,
                         restricted, valid_until, now, origin, rotated,
                         revoked>>

\* setIPWhitelist(addresses)
setIPWhitelist(addresses) ==
  /\ origin # "none"
  /\ IF \A i \in 1..Len(addresses) : validateIP(Trim(addresses[i]))
     THEN /\ settings' = [settings EXCEPT !.ipWhitelist.addresses = TrimAll(addresses)]
          /\ op' = Done("setIPWhitelist", TRUE)
          /\ UNCHANGED <<references, id, owner_id, name, api_key, raw_api_key, timestamp,
                         restricted, valid_until, now, origin, rotated,
                         revoked>>
     ELSE Throws("setIPWhitelist")

clearIPWhitelist ==
  /\ origin # "none"
  /\ settings' = [settings EXCEPT !.ipWhitelist.addresses = <<>>]
  /\ op' = Done("clearIPWhitelist", TRUE)
  /\ UNCHANGED <<references, id, owner_id, name, api_key, raw_api_key, timestamp,
                 restricted, valid_until, now, origin, rotated, revoked>>

enableDomainWhitelist ==
  /\ origin # "none"
  /\ settings' = [settings EXCEPT !.domainWhitelist.enabled = TRUE]
  /\ op' = Done("enableDomainWhitelist", TRUE)
  /\ UNCHANGED <<references, id, owner_id, name, api_key, raw_api_key, timestamp,
                 restricted, valid_until, now, origin, rotated, revoked>>

disableDomainWhitelist ==
  /\ origin # "none"
  /\ settings' = [settings EXCEPT !.domainWhitelist.enabled = FALSE]
  /\ op' = Done("disableDomainWhitelist", TRUE)
  /\ UNCHANGED <<references, id, owner_id, name, api_key, raw_api_key, timestamp,
                 restricted, valid_until, now, origin, rotated, revoked>>

\* addDomain(domain)
addDomain(domain) ==
  /\ origin # "none"
  /\ IF assertString(domain) /\ validateDomain(Trim(domain))
     THEN LET trimmed == Trim(domain)
          IN  /\ settings' =
                   [settings EXCEPT
                      !.domainWhitelist.domains =
                        IF Includes(@, trimmed) THEN @ ELSE Append(@, trimmed)]
              /\ op' = Done("addDomain", TRUE)
              /\ UNCHANGED <<references, id, owner_id, name, api_key, raw_api_key, timestamp,
                         restricted, valid_until, now, origin, rotated,
                         revoked>>
     ELSE Throws("addDomain")

\* removeDomain(domain)
removeDomain(domain) ==
  /\ origin # "none"
  /\ IF assertString(domain)
     THEN /\ settings' =
               [settings EXCEPT !.domainWhitelist.domains = Without(@, Trim(domain))]
          /\ op' = Done("removeDomain", TRUE)
          /\ UNCHANGED <<references, id, owner_id, name, api_key, raw_api_key, timestamp,
                         restricted, valid_until, now, origin, rotated,
                         revoked>>
     ELSE Throws("removeDomain")

\* setDomainWhitelist(domains)
setDomainWhitelist(domains) ==
  /\ origin # "none"
  /\ IF \A i \in 1..Len(domains) : validateDomain(Trim(domains[i]))
     THEN /\ settings' = [settings EXCEPT !.domainWhitelist.domains = TrimAll(domains)]
          /\ op' = Done("setDomainWhitelist", TRUE)
          /\ UNCHANGED <<references, id, owner_id, name, api_key, raw_api_key, timestamp,
                         restricted, valid_until, now, origin, rotated,
                         revoked>>
     ELSE Throws("setDomainWhitelist")

clearDomainWhitelist ==
  /\ origin # "none"
  /\ settings' = [settings EXCEPT !.domainWhitelist.domains = <<>>]
  /\ op' = Done("clearDomainWhitelist", TRUE)
  /\ UNCHANGED <<references, id, owner_id, name, api_key, raw_api_key, timestamp,
                 restricted, valid_until, now, origin, rotated, revoked>>

\* ------------------------------------------------------------------------
\*  Rate limit
\* ------------------------------------------------------------------------

\* amount * TO_MINUTES[frequency] > MAX_RATE_LIMIT.amount *
\* TO_MINUTES[MAX_RATE_LIMIT.frequency], compared as exact fractions
OverCeiling(amount, frequency) ==
  LET inc  == TO_MINUTES[frequency]
      ceil == TO_MINUTES[MAX_RATE_LIMIT.frequency]
  IN  amount * inc.num * ceil.den > MAX_RATE_LIMIT.amount * ceil.num * inc.den

\* the error setRateLimit(amount, frequency, bypassSafeLimit) throws, if any
setRateLimitError(amount, frequency, bypassSafeLimit) ==
  IF ~assertPositiveInteger(amount) THEN {"RangeError"}
  ELSE IF ~assertRateLimitFrequency(frequency) THEN {"TypeError"}
  ELSE IF ~bypassSafeLimit /\ OverCeiling(amount, frequency) THEN {"RangeError"}
  ELSE {}

\* setRateLimit(amount, frequency, bypassSafeLimit = false)
setRateLimit(amount, frequency, bypassSafeLimit) ==
  /\ origin # "none"
  /\ IF setRateLimitError(amount, frequency, bypassSafeLimit) # {}
     THEN Throws("setRateLimit")
     ELSE /\ settings' =
               [settings EXCEPT
                  !.rateLimit = [amount |-> amount, frequency |-> frequency]]
          /\ op' = Done("setRateLimit", TRUE)
          /\ UNCHANGED <<references, id, owner_id, name, api_key, raw_api_key, timestamp,
                         restricted, valid_until, now, origin, rotated,
                         revoked>>

resetRateLimit ==
  /\ origin # "none"
  /\ settings' = [settings EXCEPT !.rateLimit = DEFAULT_RATE_LIMIT]
  /\ op' = Done("resetRateLimit", TRUE)
  /\ UNCHANGED <<references, id, owner_id, name, api_key, raw_api_key, timestamp,
                 restricted, valid_until, now, origin, rotated, revoked>>

\* get rateLimit
rateLimit == settings.rateLimit

\* ------------------------------------------------------------------------
\*  Allowed methods and metadata
\* ------------------------------------------------------------------------

LowerCase ==
  <<"a", "b", "c", "d", "e", "f", "g", "h", "i", "j", "k", "l", "m",
    "n", "o", "p", "q", "r", "s", "t", "u", "v", "w", "x", "y", "z">>

UpperCase ==
  <<"A", "B", "C", "D", "E", "F", "G", "H", "I", "J", "K", "L", "M",
    "N", "O", "P", "Q", "R", "S", "T", "U", "V", "W", "X", "Y", "Z">>

\* String.prototype.toUpperCase on texts of ASCII characters
toUpperCase(text) ==
  [i \in 1..Len(text) |->
     IF \E j \in 1..26 : LowerCase[j] = text[i]
     THEN UpperCase[CHOOSE j \in 1..26 : LowerCase[j] = text[i]]
     ELSE text[i]]

\* the list "valid" of setAllowedMethods
HTTPMethods ==
  {<<"G", "E", "T">>, <<"P", "O", "S", "T">>, <<"P", "U", "T">>,
   <<"P", "A", "T", "C", "H">>, <<"D", "E", "L", "E", "T", "E">>,
   <<"H", "E", "A", "D">>, <<"O", "P", "T", "I", "O", "N", "S">>}

\* setAllowedMethods(methods)
setAllowedMethods(methods) ==
  /\ origin # "none"
  /\ IF \A i \in 1..Len(methods) : toUpperCase(methods[i]) \in HTTPMethods
     THEN /\ settings' =
               [settings EXCEPT
                  !.allowedMethods =
                    [i \in 1..Len(methods) |-> toUpperCase(methods[i])]]
          /\ op' = Done("setAllowedMethods", TRUE)
          /\ UNCHANGED <<references, id, owner_id, name, api_key, raw_api_key, timestamp,
                         restricted, valid_until, now, origin, rotated,
                         revoked>>
     ELSE Throws("setAllowedMethods")

clearAllowedMethods ==
  /\ origin # "none"
  /\ settings' = [settings EXCEPT !.allowedMethods = <<>>]
  /\ op' = Done("clearAllowedMethods", TRUE)
  /\ UNCHANGED <<references, id, owner_id, name, api_key, raw_api_key, timestamp,
                 restricted, valid_until, now, origin, rotated, revoked>>

\* obj[key] = value on a plain object
Assign(obj, key, value) ==
  [k \in DOMAIN obj \cup {key} |-> IF k = key THEN value ELSE obj[k]]

\* delete obj[key]; the empty object is <<>>
Delete(obj, key) ==
  IF DOMAIN obj \ {key} = {} THEN <<>>
  ELSE [k \in DOMAIN obj \ {key} |-> obj[k]]

\* setMetadata(key, value)
setMetadata(key, value) ==
  /\ origin # "none"
  /\ IF assertString(key)
     THEN /\ settings' =
               [settings EXCEPT !.metadata = Assign(@, key, value)]
          /\ op' = Done("setMetadata", TRUE)
          /\ UNCHANGED <<references, id, owner_id, name, api_key, raw_api_key, timestamp,
                         restricted, valid_until, now, origin, rotated,
                         revoked>>
     ELSE Throws("setMetadata")

\* deleteMetadata(key)
deleteMetadata(key) ==
  /\ origin # "none"
  /\ IF assertString(key)
     THEN /\ settings' = [settings EXCEPT !.metadata = Delete(@, key)]
          /\ op' = Done("deleteMetadata", TRUE)
          /\ UNCHANGED <<references, id, owner_id, name, api_key, raw_api_key, timestamp,
                         restricted, valid_until, now, origin, rotated,
                         revoked>>
     ELSE Throws("deleteMetadata")

clearMetadata ==
  /\ origin # "none"
  /\ settings' = [settings EXCEPT !.metadata = <<>>]
  /\ op' = Done("clearMetadata", TRUE)
  /\ UNCHANGED <<references, id, owner_id, name, api_key, raw_api_key, timestamp,
                 restricted, valid_until, now, origin, rotated, revoked>>

\* the clock advances between calls
Tick ==
  /\ now < MaxTime
  /\ now' = now + 1
  /\ op' = Done("tick", TRUE)
  /\ UNCHANGED <<references, fields, origin, rotated, revoked>>

\* ------------------------------------------------------------------------
\*  Inputs and specification
\* ------------------------------------------------------------------------

Optional(S) == {{}} \cup {{x} : x \in S}

OwnerInputs == {<<" ">>, <<"a", " ">>}

\* names a caller may pass: blank, and one that trimming changes
NameInputs == {<<" ">>, <<" ", "a">>}

DateInputs == DateObjects \cup DateTexts

\* partial settings a caller may pass as options.settings / data.settings
SettingsInputs ==
  {<<>>,
   [ipWhitelist |-> [enabled |-> TRUE]],
   [rateLimit |-> [amount |-> 0]],
   [ipWhitelist |-> [addresses |-> <<<<"9", "9", "9", ".", "1", ".", "1", ".", "1">>>>]]}

CreateOptions ==
  [name : Optional(NameInputs), restricted : Optional(BOOLEAN),
   valid_until : Optional(DateInputs), settings : SettingsInputs]

IdInputs == {<<>>, <<" ", "a">>}

KeyInputs == {<<>>, sha256(<<"a">>)}

TimestampInputs ==
  {[kind |-> "iso", ms |-> Epoch], [kind |-> "other", ms |-> Epoch],
   [kind |-> "garbage", ms |-> 0], [kind |-> "blank", ms |-> 0]}

JSONRecords ==
  [id : IdInputs, owner_id : OwnerInputs, name : NameInputs, api_key : KeyInputs,
   timestamp : TimestampInputs, restricted : Optional(BOOLEAN),
   valid_until : Optional(DateTexts), settings : Optional(SettingsInputs)]

\* a caller builds the instance with create
Create ==
  /\ origin = "none"
  /\ \E o \in OwnerInputs, t \in Optional(Texts), opts \in CreateOptions :
       create(o, t, opts)

\* a caller rebuilds the instance from a stored record
FromJSON ==
  /\ origin = "none"
  /\ \E data \in JSONRecords : fromJSON(data)

Rotate == \E t \in Optional(Texts) : rotate(t)

Rename == \E n \in NameInputs : rename(n)

SetExpiry == \E d \in Optional(DateInputs) : setExpiry(d)

Next ==
  \/ Create
  \/ FromJSON
  \/ Rotate
  \/ Rename
  \/ SetExpiry
  \/ restrict
  \/ unrestrict
  \/ revoke
  \/ enableIPWhitelist
  \/ disableIPWhitelist
  \/ Tick

Spec == Init /\ [][Next]_vars

\* ------------------------------------------------------------------------
\*  Inputs and specification of the settings operations
\* ------------------------------------------------------------------------

\* longest list a caller passes to a bulk replacement
MaxList == 2

\* "1.2.3.4"
IPv4Address == <<"1", ".", "2", ".", "3", ".", "4">>

\* " 1.2.3.4": the same address with surrounding whitespace
IPv4Padded == <<" ", "1", ".", "2", ".", "3", ".", "4">>

\* "999.1.1.1": an octet out of range
IPv4BadOctet == <<"9", "9", "9", ".", "1", ".", "1", ".", "1">>

\* "1.2.3.4/8x": characters after the prefix length
CIDRTrailing == <<"1", ".", "2", ".", "3", ".", "4", "/", "8", "x">>

Blank == <<" ">>

IPInputs == {IPv4Padded, IPv4BadOctet, CIDRTrailing, Blank}

\* the entries of the lists a caller passes to setIPWhitelist
IPListEntries == {IPv4Padded, IPv4BadOctet}

\* " a.bc": a domain with surrounding whitespace
DomainPadded == <<" ", "a", ".", "b", "c">>

\* "-a.bc": a label starting with a hyphen
DomainBadLabel == <<"-", "a", ".", "b", "c">>

\* the last but one is "a.b1.cd": an inner label with a digit
DomainInputs ==
  {DomainPadded, DomainBadLabel, <<"a", ".", "b", "1", ".", "c", "d">>, Blank}

\* the lists a caller passes to setDomainWhitelist
DomainListInputs ==
  {<<>>, <<DomainPadded>>, <<DomainPadded, DomainPadded>>,
   <<DomainPadded, DomainBadLabel>>}

\* the lists of length at most MaxList over a set of entries
ListsOf(S) == UNION {[1..n -> S] : n \in 0..MaxList}

RateAmounts == {0, 8, 9, 10, 500, 501, 1000, 30000, 30001}

RateFrequencies == {"seconds", "minutes", "hours", "days"}

MethodListInputs ==
  {<<<<"g", "e", "t">>>>, <<<<"G", "E", "T">>, <<"f", "o", "o">>>>}

MetadataKeys == {Blank, <<"k">>}

MetadataValues == {1}

\* partial settings a caller may pass to create or store in a record
SettingsOverrides ==
  {<<>>,
   [rateLimit |-> [amount |-> 1000]],
   [rateLimit |-> [frequency |-> "days"]],
   [ipWhitelist |-> [addresses |-> <<IPv4Address, IPv4Address>>]],
   [ipWhitelist |-> [addresses |-> <<IPv4Padded>>]],
   [domainWhitelist |-> [domains |-> <<Trim(DomainPadded), Trim(DomainPadded)>>]],
   [allowedMethods |-> <<<<"g", "e", "t">>>>]}

\* a caller builds the instance with create and partial settings
CreateWithSettings ==
  /\ origin = "none"
  /\ \E overrides \in SettingsOverrides :
       create(<<"a", " ">>, Undefined,
              [name |-> Undefined, restricted |-> Undefined,
               valid_until |-> Null, settings |-> overrides])

\* a caller rebuilds the instance from a stored record with partial settings
FromJSONWithSettings ==
  /\ origin = "none"
  /\ \E overrides \in SettingsOverrides :
       fromJSON([id |-> <<" ", "a">>, owner_id |-> <<"a", " ">>,
                 name |-> <<" ", "a">>, api_key |-> sha256(<<"a">>),
                 timestamp |-> toISOString(Epoch), restricted |-> {FALSE},
                 valid_until |-> Null, settings |-> {overrides}])

SetRateLimit ==
  \E amount \in RateAmounts, frequency \in RateFrequencies, bypassSafeLimit \in BOOLEAN :
    setRateLimit(amount, frequency, bypassSafeLimit)

AddIP == \E ip \in IPInputs : addIP(ip)

RemoveIP == \E ip \in IPInputs : removeIP(ip)

SetIPWhitelist ==
  \E addresses \in ListsOf(IPListEntries) : setIPWhitelist(addresses)

AddDomain == \E domain \in DomainInputs : addDomain(domain)

RemoveDomain == \E domain \in DomainInputs : removeDomain(domain)

SetDomainWhitelist ==
  \E domains \in DomainListInputs : setDomainWhitelist(domains)

SetAllowedMethods == \E methods \in MethodListInputs : setAllowedMethods(methods)

SetMetadata ==
  \E key \in MetadataKeys, value \in MetadataValues : setMetadata(key, value)

DeleteMetadata == \E key \in MetadataKeys : deleteMetadata(key)

\* the specification of the rate limit, the allowed methods and the
\* metadata
NextSettings ==
  \/ CreateWithSettings
  \/ FromJSONWithSettings
  \/ SetRateLimit
  \/ resetRateLimit
  \/ SetAllowedMethods
  \/ clearAllowedMethods
  \/ SetMetadata
  \/ DeleteMetadata
  \/ clearMetadata

SpecSettings == Init /\ [][NextSettings]_vars

\* calls of the other mutators with inputs they reject: a blank name, a
\* blank secret, a malformed or non-future expiry, a bad or excessive rate,
\* an unknown method, a blank metadata key
RejectedRename == rename(Blank)

RejectedRotate == rotate({Blank})

RejectedSetExpiry ==
  \E date \in {[kind |-> "garbage", ms |-> 0], [kind |-> "nandate", ms |-> 0],
                [kind |-> "date", ms |-> now]} :
    setExpiry({date})

RejectedSetRateLimit ==
  \/ setRateLimit(0, "minutes", FALSE)
  \/ setRateLimit(10, "days", TRUE)
  \/ setRateLimit(1000, "minutes", FALSE)

RejectedSetAllowedMethods == setAllowedMethods(<<<<"G", "E", "T">>, <<"f", "o", "o">>>>)

RejectedSetMetadata == setMetadata(Blank, 1)

\* the specification of the IP and domain whitelists, with the rejected
\* calls of the other mutators
NextWhitelists ==
  \/ CreateWithSettings
  \/ FromJSONWithSettings
  \/ enableIPWhitelist
  \/ disableIPWhitelist
  \/ AddIP
  \/ RemoveIP
  \/ SetIPWhitelist
  \/ clearIPWhitelist
  \/ enableDomainWhitelist
  \/ disableDomainWhitelist
  \/ AddDomain
  \/ RemoveDomain
  \/ SetDomainWhitelist
  \/ clearDomainWhitelist
  \/ RejectedRename
  \/ RejectedRotate
  \/ RejectedSetExpiry
  \/ RejectedSetRateLimit
  \/ RejectedSetAllowedMethods
  \/ RejectedSetMetadata

SpecWhitelists == Init /\ [][NextWhitelists]_vars

\* ------------------------------------------------------------------------
\*  Inputs and specification of the stored key
\* ------------------------------------------------------------------------

\* a caller rebuilds the instance from a stored record whose api_key is
\* blank, a digest, or a text that is no digest
FromJSONWithKey ==
  /\ origin = "none"
  /\ \E key \in {Blank, sha256(<<"a">>), <<"a">>} :
       fromJSON([id |-> <<" ", "a">>, owner_id |-> <<"a", " ">>,
                 name |-> <<" ", "a">>, api_key |-> key,
                 timestamp |-> toISOString(Epoch), restricted |-> {FALSE},
                 valid_until |-> Null, settings |-> {<<>>}])

\* the specification of the stored key: the factories and rotate
NextKeys ==
  \/ Create
  \/ FromJSONWithKey
  \/ Rotate

SpecKeys == Init /\ [][NextKeys]_vars

\* ------------------------------------------------------------------------
\*  Specification of all the mutators together
\* ------------------------------------------------------------------------

\* a caller builds the instance with create and a secret of its own
CreateWithText ==
  /\ origin = "none"
  /\ create(<<"a", " ">>, {<<"a">>},
            [name |-> Undefined, restricted |-> Undefined,
             valid_until |-> Null, settings |-> <<>>])

\* the specification of all the mutators of one instance; the mutators
\* that take an argument are called with one they accept
NextMutators ==
  \/ CreateWithText
  \/ rotate({<<"a", "a">>})
  \/ rename(<<" ", "a">>)
  \/ setExpiry({[kind |-> "date", ms |-> MaxTime + 1]})
  \/ restrict
  \/ unrestrict
  \/ revoke
  \/ setRateLimit(10, "minutes", FALSE)
  \/ resetRateLimit
  \/ enableIPWhitelist
  \/ disableIPWhitelist
  \/ addIP(IPv4Padded)
  \/ removeIP(IPv4Padded)
  \/ setIPWhitelist(<<IPv4Padded>>)
  \/ clearIPWhitelist
  \/ enableDomainWhitelist
  \/ disableDomainWhitelist
  \/ addDomain(DomainPadded)
  \/ removeDomain(DomainPadded)
  \/ setDomainWhitelist(<<DomainPadded>>)
  \/ clearDomainWhitelist
  \/ setAllowedMethods(<<<<"g", "e", "t">>>>)
  \/ clearAllowedMethods
  \/ setMetadata(<<"k">>, 1)
  \/ deleteMetadata(<<"k">>)
  \/ clearMetadata

SpecMutators == Init /\ [][NextMutators]_vars

\* ------------------------------------------------------------------------
\*  Two instances and their caller, with the objects they refer to
\* ------------------------------------------------------------------------

\* the least place no object is at
Fresh(h) ==
  CHOOSE r \in 1..MaxRefs :
    h[r].kind = "free" /\ \A q \in 1..(r - 1) : h[q].kind # "free"

\* objects that no instance, neither the caller's input nor the value a
\* getter returned refers to any more are collected
Collect(h, insts, inp, g) ==
  [r \in 1..MaxRefs |->
     IF r \in {insts[i].ref : i \in Names} \cup {inp, g}
     THEN h[r]
     ELSE Cell("free", <<>>, <<>>, 0)]

\* the value of the part in a freshly built instance without input
DefaultCell(p) ==
  IF p \in ArrayParts THEN Cell("array", <<>>, <<>>, 0)
  ELSE IF p = "metadata" THEN Cell("object", <<>>, <<>>, 0)
  ELSE IF p = "rateLimit" THEN Cell("object", <<>>, DEFAULT_RATE_LIMIT, 0)
  ELSE Cell("date", <<>>, <<>>, MaxTime + 1)

\* the caller builds the object to pass for one part of an instance: an
\* array, a plain object or a Date; or decides to pass none
CallerBuildsInput ==
  /\ part = "none"
  /\ \E p \in ArrayParts \cup {"metadata", "rateLimit", "valid_until", "timestamp"},
        given \in BOOLEAN :
       /\ part' = p
       /\ IF given /\ p # "timestamp"
          THEN /\ heap' = [heap EXCEPT ![Fresh(heap)] = DefaultCell(p)]
               /\ input' = Fresh(heap)
          ELSE UNCHANGED <<heap, input>>
  /\ op' = Done("input", TRUE)
  /\ actor' = "caller"
  /\ UNCHANGED <<fields, now, origin, rotated, revoked, instances, got>>

\* the object an instance built by either factory refers to for the part:
\* buildDefaultSettings stores the caller's arrays and metadata object
\* themselves and spreads the rate limit into a new object
BuiltFromSettings(i) ==
  IF part \in ArrayParts \cup {"metadata"} /\ input # NoRef
  THEN /\ instances' = [instances EXCEPT ![i] = [built |-> TRUE, ref |-> input]]
       /\ UNCHANGED heap
  ELSE /\ \E r \in 1..MaxRefs : heap[r].kind = "free"
       /\ heap' =
            [heap EXCEPT
               ![Fresh(heap)] =
                 IF part = "rateLimit" /\ input # NoRef
                 THEN Cell("object", <<>>,
                           Spread(DEFAULT_RATE_LIMIT, heap[input].props), 0)
                 ELSE DefaultCell(part)]
       /\ instances' = [instances EXCEPT ![i] = [built |-> TRUE, ref |-> Fresh(heap)]]

\* create(ownerID, text, options) building instance i: parseDate hands a
\* Date in options.valid_until back as it is; the timestamp is a new Date
createInstance(i) ==
  /\ part # "none"
  /\ ~instances[i].built
  /\ IF part = "valid_until"
     THEN IF input = NoRef
          THEN /\ instances' = [instances EXCEPT ![i] = [built |-> TRUE, ref |-> NoRef]]
               /\ UNCHANGED heap
               /\ op' = Done("create", TRUE)
          ELSE IF heap[input].ms <= now
          THEN /\ UNCHANGED <<heap, instances>>
               /\ op' = Done("create", FALSE)
          ELSE /\ instances' = [instances EXCEPT ![i] = [built |-> TRUE, ref |-> input]]
               /\ UNCHANGED heap
               /\ op' = Done("create", TRUE)
     ELSE IF part = "timestamp"
     THEN /\ \E r \in 1..MaxRefs : heap[r].kind = "free"
          /\ heap' = [heap EXCEPT ![Fresh(heap)] = Cell("date", <<>>, <<>>, now)]
          /\ instances' = [instances EXCEPT ![i] = [built |-> TRUE, ref |-> Fresh(heap)]]
          /\ op' = Done("create", TRUE)
     ELSE /\ BuiltFromSettings(i)
          /\ op' = Done("create", TRUE)
  /\ actor' = i
  /\ UNCHANGED <<fields, now, origin, rotated, revoked, part, input, got>>

\* fromJSON(data) building instance i: the dates of a record are texts, so
\* the instance gets new Dates
fromJSONInstance(i) ==
  /\ part # "none"
  /\ ~instances[i].built
  /\ IF part \in {"valid_until", "timestamp"}
     THEN /\ \E r \in 1..MaxRefs : heap[r].kind = "free"
          /\ heap' = [heap EXCEPT ![Fresh(heap)] = DefaultCell(part)]
          /\ instances' = [instances EXCEPT ![i] = [built |-> TRUE, ref |-> Fresh(heap)]]
     ELSE BuiltFromSettings(i)
  /\ op' = Done("fromJSON", TRUE)
  /\ actor' = i
  /\ UNCHANGED <<fields, now, origin, rotated, revoked, part, input, got>>

\* addIP("1.2.3.4") on instance i: pushes to the stored array unless the
\* array includes the address
addIPOn(i) ==
  /\ part = "addresses"
  /\ instances[i].built
  /\ \/ Includes(heap[instances[i].ref].items, IPv4Address)
     \/ Len(heap[instances[i].ref].items) < MaxItems
  /\ heap' =
       [heap EXCEPT
          ![instances[i].ref].items =
            IF Includes(@, IPv4Address) THEN @ ELSE Append(@, IPv4Address)]
  /\ op' = Done("addIP", TRUE)
  /\ actor' = i
  /\ UNCHANGED <<fields, now, origin, rotated, revoked, part, instances, input, got>>

\* addDomain("a.bc") on instance i: pushes to the stored array unless the
\* array includes the domain
addDomainOn(i) ==
  /\ part = "domains"
  /\ instances[i].built
  /\ \/ Includes(heap[instances[i].ref].items, Trim(DomainPadded))
     \/ Len(heap[instances[i].ref].items) < MaxItems
  /\ heap' =
       [heap EXCEPT
          ![instances[i].ref].items =
            IF Includes(@, Trim(DomainPadded))
            THEN @
            ELSE Append(@, Trim(DomainPadded))]
  /\ op' = Done("addDomain", TRUE)
  /\ actor' = i
  /\ UNCHANGED <<fields, now, origin, rotated, revoked, part, instances, input, got>>

\* setMetadata("k", 1) on instance i
setMetadataOn(i) ==
  /\ part = "metadata"
  /\ instances[i].built
  /\ heap' = [heap EXCEPT ![instances[i].ref].props = Assign(@, <<"k">>, 1)]
  /\ op' = Done("setMetadata", TRUE)
  /\ actor' = i
  /\ UNCHANGED <<fields, now, origin, rotated, revoked, part, instances, input, got>>

\* deleteMetadata("k") on instance i
deleteMetadataOn(i) ==
  /\ part = "metadata"
  /\ instances[i].built
  /\ heap' = [heap EXCEPT ![instances[i].ref].props = Delete(@, <<"k">>)]
  /\ op' = Done("deleteMetadata", TRUE)
  /\ actor' = i
  /\ UNCHANGED <<fields, now, origin, rotated, revoked, part, instances, input, got>>

\* setExpiry(date) on instance i with the caller's Date: parseDate hands
\* the Date back as it is
setExpiryOn(i) ==
  /\ part = "valid_until"
  /\ instances[i].built
  /\ input # NoRef
  /\ IF heap[input].ms <= now
     THEN /\ op' = Done("setExpiry", FALSE)
          /\ UNCHANGED <<heap, instances>>
     ELSE /\ instances' = [instances EXCEPT ![i].ref = input]
          /\ heap' = Collect(heap, instances', input, got)
          /\ op' = Done("setExpiry", TRUE)
  /\ actor' = i
  /\ UNCHANGED <<fields, now, origin, rotated, revoked, part, input, got>>

\* a getter handing out a copy of the object of the field (structuredClone,
\* a spread, new Date), or null for a null field
ReturnsCopy(i, getter) ==
  /\ instances[i].built
  /\ IF instances[i].ref = NoRef
     THEN /\ got' = NoRef
          /\ heap' = Collect(heap, instances, input, NoRef)
     ELSE LET h == Collect(heap, instances, input, NoRef)
          IN  /\ got' = Fresh(h)
              /\ heap' = [h EXCEPT ![Fresh(h)] = heap[instances[i].ref]]
  /\ op' = Done(getter, TRUE)
  /\ actor' = "caller"
  /\ UNCHANGED <<fields, now, origin, rotated, revoked, part, instances, input>>

\* get settings of instance i
settingsOf(i) ==
  /\ part \in ArrayParts \cup {"metadata", "rateLimit"}
  /\ ReturnsCopy(i, "settings")

\* get rateLimit of instance i
rateLimitOf(i) ==
  /\ part = "rateLimit"
  /\ ReturnsCopy(i, "rateLimit")

\* get ipWhitelist handing out the stored object
ipWhitelistOf_NoClone(i) ==
  /\ part = "addresses"
  /\ instances[i].built
  /\ got' = instances[i].ref
  /\ heap' = Collect(heap, instances, input, got')
  /\ op' = Done("ipWhitelist", TRUE)
  /\ actor' = "caller"
  /\ UNCHANGED <<fields, now, origin, rotated, revoked, part, instances, input>>

\* get ipWhitelist of instance i
ipWhitelistOf(i) ==
  /\ part = "addresses"
  /\ ReturnsCopy(i, "ipWhitelist")

\* get domainWhitelist of instance i
domainWhitelistOf(i) ==
  /\ part = "domains"
  /\ ReturnsCopy(i, "domainWhitelist")

\* get allowedMethods of instance i
allowedMethodsOf(i) ==
  /\ part = "allowedMethods"
  /\ ReturnsCopy(i, "allowedMethods")

\* get validUntil of instance i
validUntilOf(i) ==
  /\ part = "valid_until"
  /\ ReturnsCopy(i, "validUntil")

\* get createdAt of instance i
createdAtOf(i) ==
  /\ part = "timestamp"
  /\ ReturnsCopy(i, "createdAt")

\* toJSON() of instance i: the settings are a structuredClone; the dates
\* are texts, which nobody can change
toJSONOf(i) ==
  /\ part \in ArrayParts \cup {"metadata", "rateLimit"}
  /\ ReturnsCopy(i, "toJSON")

\* the caller changes the object r in place: pushes an entry of its own to
\* an array, sets the time of a Date, assigns a property of a plain object
CallerMutates(r, opname) ==
  /\ r # NoRef
  /\ heap[r].kind = "array" => Len(heap[r].items) < MaxItems
  /\ heap' =
       [heap EXCEPT
          ![r] =
            IF heap[r].kind = "array"
            THEN [heap[r] EXCEPT !.items = Append(@, <<"x">>)]
            ELSE IF heap[r].kind = "date"
            THEN [heap[r] EXCEPT !.ms = Epoch]
            ELSE IF part = "rateLimit"
            THEN [heap[r] EXCEPT !.props.amount = 1000]
            ELSE [heap[r] EXCEPT !.props = Assign(@, <<"x">>, 1)]]
  /\ op' = Done(opname, TRUE)
  /\ actor' = "caller"
  /\ UNCHANGED <<fields, now, origin, rotated, revoked, part, instances, input, got>>

\* the caller changes the object it passed in
CallerMutatesInput ==
  /\ input # NoRef
  /\ CallerMutates(input, "mutateInput")

\* the caller changes the object a getter returned
CallerMutatesGot ==
  /\ got # NoRef
  /\ CallerMutates(got, "mutateGot")

\* the specification of two instances and their caller
NextReferences ==
  \/ CallerBuildsInput
  \/ \E i \in Names : createInstance(i)
  \/ \E i \in Names : fromJSONInstance(i)
  \/ \E i \in Names : addIPOn(i)
  \/ \E i \in Names : addDomainOn(i)
  \/ \E i \in Names : setMetadataOn(i)
  \/ \E i \in Names : deleteMetadataOn(i)
  \/ \E i \in Names : setExpiryOn(i)
  \/ \E i \in Names : settingsOf(i)
  \/ \E i \in Names : rateLimitOf(i)
  \/ \E i \in Names : ipWhitelistOf(i)
  \/ \E i \in Names : domainWhitelistOf(i)
  \/ \E i \in Names : allowedMethodsOf(i)
  \/ \E i \in Names : validUntilOf(i)
  \/ \E i \in Names : createdAtOf(i)
  \/ \E i \in Names : toJSONOf(i)
  \/ CallerMutatesInput
  \/ CallerMutatesGot

SpecReferences == Init /\ [][NextReferences]_vars

\* ------------------------------------------------------------------------
\*  Properties
\* ------------------------------------------------------------------------

Live == origin # "none"

\* the secrets a key can have: trimmed caller texts and generated identifiers
Secrets == {Trim(t) : t \in Texts} \cup UUIDs

C2_CreateThenVerify ==
  op = Done("create", TRUE) =>
    /\ raw_api_key # Undefined
    /\ \A raw \in raw_api_key :
         /\ verify(raw) = {TRUE}
         /\ \A t \in Texts \cup UUIDs :
              /\ (Trim(t) # <<>> /\ Trim(t) # raw) => verify(t) = {FALSE}
              /\ (Trim(t) = <<>>) <=> (verify(t) = {})

C2_Witness ==
  /\ op = Done("create", TRUE)
  /\ raw_api_key = {<<"a">>}
  /\ verify(<<" ", "a">>) = {TRUE}

C4_RotateUpdatesTimestamp ==
  op = Done("rotate", TRUE) =>
    /\ timestamp = now
    /\ toJSON(self).timestamp = toISOString(now)

\* C5 as stated: toJSON() has exactly the eight documented fields and none
\* of their values equals the current rawApiKey.
C5_NoFieldEqualsRawKey ==
  Live =>
    /\ DOMAIN toJSON(self) =
         {"id", "owner_id", "name", "api_key", "timestamp", "restricted",
          "valid_until", "settings"}
    /\ \A raw \in raw_api_key :
         \A f \in {"id", "owner_id", "name", "api_key"} :
           toJSON(self)[f] # raw

\* C5 amended: toJSON() has exactly the eight documented fields, none of
\* them the raw key field, and its api_key is the hash of the current
\* rawApiKey, never the rawApiKey itself.
C5_NoPlaintextField ==
  Live =>
    /\ DOMAIN toJSON(self) =
         {"id", "owner_id", "name", "api_key", "timestamp", "restricted",
          "valid_until", "settings"}
    /\ \A raw \in raw_api_key :
         /\ toJSON(self).api_key # raw
         /\ toJSON(self).api_key = sha256(raw)

C5_Witness ==
  /\ Live
  /\ rotated
  /\ name \in raw_api_key

\* C6: rawApiKey is defined exactly on instances returned by create or on
\* which rotate has succeeded; an instance from fromJSON has it undefined
\* until rotate is called.
C6_RawKeyOnlyAfterCreateOrRotate ==
  Live => ((raw_api_key # Undefined) <=> (origin = "create" \/ rotated))

C6_Witness ==
  /\ origin = "fromJSON"
  /\ ~rotated
  /\ raw_api_key = Undefined
  /\ op = Done("rename", TRUE)

C8_StatusPrecedence ==
  Live =>
    status =
      IF valid_until = {Epoch} THEN "revoked"
      ELSE IF valid_until # Null /\ now > The(valid_until) THEN "expired"
      ELSE IF restricted THEN "restricted"
      ELSE "active"

C8_Witness ==
  /\ Live
  /\ restricted
  /\ valid_until # Null
  /\ valid_until # {Epoch}
  /\ status = "expired"

\* C9: immediately after revoke the status is 'revoked', restricted is
\* true, validUntil is the epoch instant and isActive is false.
C9_AfterRevoke ==
  op = Done("revoke", TRUE) =>
    /\ status = "revoked"
    /\ restricted
    /\ valid_until = {Epoch}
    /\ ~isActive

C9_Witness ==
  /\ op = Done("revoke", TRUE)
  /\ origin = "create"
  /\ ~rotated

C11_ActiveIffStatusActive ==
  Live =>
    /\ isActive <=> (status = "active")
    /\ status = "revoked" => ~isActive

C11_Witness ==
  /\ origin = "fromJSON"
  /\ revoked
  /\ op = Done("unrestrict", TRUE)
  /\ ~restricted
  /\ status = "revoked"
  /\ ~isActive

\* C12: a non-null d at or before the clock makes setExpiry throw a range
\* error, so that a successful setExpiry(d) has d strictly after the clock
\* and stores it, and a failed one changes nothing; setExpiry(null) clears
\* the expiry; and while the stored expiry is d, the status is 'expired'
\* and isActive is false at every clock value past d, and the key is not
\* expired before d.
C12_SetExpiry ==
  /\ [](Live =>
         \A d \in DateInputs :
           \A v \in parseDate(d) :
             (v <= now) => (setExpiryError({d}) = {"RangeError"}))
  /\ [][/\ (op' = Done("setExpiry", TRUE)) =>
             (\A d \in DateInputs :
                (valid_until' = parseDate(d) /\ setExpiry({d})) =>
                  (\A v \in parseDate(d) : v > now))
        /\ (op' = Done("setExpiry", FALSE)) => (valid_until' = valid_until)
        /\ (op'.name = "setExpiry" /\ setExpiry(Null)) =>
             (op' = Done("setExpiry", TRUE) /\ valid_until' = Null)]_vars
  /\ [](Live =>
         \A v \in valid_until \ {Epoch} :
           /\ (now > v) => (status = "expired" /\ ~isActive)
           /\ (now < v) => (~isExpired /\ status # "expired"))

C12_Witness ==
  /\ revoked
  /\ valid_until = {2}
  /\ now = 3
  /\ status = "expired"
  /\ ~isActive

\* C13: msUntilExpiry is exactly -1 when validUntil is null; otherwise it
\* is validUntil - now when that is positive and 0 when it is not, so it is
\* never negative and is 0 once the expiry has passed, also after revoke().
C13_MsUntilExpiry ==
  Live =>
    /\ valid_until = Null => msUntilExpiry = 0 - 1
    /\ \A v \in valid_until :
         /\ msUntilExpiry >= 0
         /\ v > now => msUntilExpiry = v - now
         /\ v <= now => msUntilExpiry = 0
    /\ op = Done("revoke", TRUE) => msUntilExpiry = 0

C13_Witness ==
  /\ op = Done("tick", TRUE)
  /\ valid_until = {2}
  /\ now = 3
  /\ msUntilExpiry = 0
  /\ ~revoked

\* whether amount per frequency, in requests per minute, is above 500
AboveCeiling(amount, frequency) ==
  CASE frequency = "seconds" -> amount * 60 > 500
    [] frequency = "minutes" -> amount > 500
    [] frequency = "hours"   -> amount > 500 * 60

\* C14: after create (with any settings override), fromJSON,
\* resetRateLimit and every successful setRateLimit without bypass, the
\* stored rateLimit has a positive integer amount and a rate of at most
\* 500 requests per minute.
C14_RateLimitCeiling ==
  [][(/\ op'.ok
      /\ \/ op'.name \in {"create", "fromJSON", "resetRateLimit"}
         \/ \E a \in RateAmounts, f \in RateFrequencies :
              setRateLimit(a, f, FALSE))
       => /\ rateLimit'.amount \in Nat \ {0}
          /\ ~AboveCeiling(rateLimit'.amount, rateLimit'.frequency)]_vars

\* C15: for a positive integer amount and any of the three frequencies,
\* setRateLimit without bypass fails, with a range error, exactly when the
\* rate in requests per minute is above 500; with bypass it succeeds; and
\* after a success the rateLimit getter returns {amount, frequency}.
C15_SetRateLimitCeiling ==
  [][\A a \in RateAmounts \ {0}, f \in {"seconds", "minutes", "hours"} :
       /\ setRateLimit(a, f, FALSE) =>
            /\ (op' = Done("setRateLimit", FALSE)) <=> AboveCeiling(a, f)
            /\ AboveCeiling(a, f) =>
                 setRateLimitError(a, f, FALSE) = {"RangeError"}
            /\ op'.ok => rateLimit' = [amount |-> a, frequency |-> f]
       /\ setRateLimit(a, f, TRUE) =>
            /\ op' = Done("setRateLimit", TRUE)
            /\ rateLimit' = [amount |-> a, frequency |-> f]]_vars

ipAddresses == settings.ipWhitelist.addresses

domainNames == settings.domainWhitelist.domains

\* C16: a mutator call that fails leaves every field of the entity as it
\* was; rename with a blank name, rotate with a blank text, setExpiry with
\* a malformed or non-future date, setRateLimit with a bad amount or
\* frequency or over the ceiling, addIP / addDomain with an invalid entry,
\* setIPWhitelist / setDomainWhitelist with an invalid entry anywhere in
\* the list, setAllowedMethods with an unknown method and setMetadata with
\* a blank key all fail.
C16_FailedCallChangesNothing ==
  [][Live =>
       /\ ~op'.ok => fields' = fields
       /\ op'.name \in {"rename", "rotate", "setExpiry", "setRateLimit",
                         "setAllowedMethods", "setMetadata"} =>
            ((\/ RejectedRename
              \/ RejectedRotate
              \/ RejectedSetExpiry
              \/ RejectedSetRateLimit
              \/ RejectedSetAllowedMethods
              \/ RejectedSetMetadata) => (~op'.ok /\ fields' = fields))
       /\ op'.name = "addIP" =>
            \A ip \in IPInputs :
              (addIP(ip) /\ ~validateIP(Trim(ip))) =>
                (op' = Done("addIP", FALSE) /\ fields' = fields)
       /\ op'.name = "addDomain" =>
            \A domain \in DomainInputs :
              (addDomain(domain) /\ ~validateDomain(Trim(domain))) =>
                (op' = Done("addDomain", FALSE) /\ fields' = fields)
       /\ op' = Done("setIPWhitelist", TRUE) =>
            \A list \in ListsOf(IPListEntries) :
              (ipAddresses' = TrimAll(list) /\ setIPWhitelist(list)) =>
                \A i \in 1..Len(list) : validateIP(Trim(list[i]))
       /\ op' = Done("setDomainWhitelist", TRUE) =>
            \A list \in DomainListInputs :
              (domainNames' = TrimAll(list) /\ setDomainWhitelist(list)) =>
                \A i \in 1..Len(list) : validateDomain(Trim(list[i]))]_vars

C16_Witness ==
  /\ op = Done("setIPWhitelist", FALSE)
  /\ Len(ipAddresses) = 2
  /\ settings.ipWhitelist.enabled
  /\ domainNames # <<>>

\* whether no entry occurs twice in the list
NoDuplicates(list) ==
  \A i, j \in 1..Len(list) : list[i] = list[j] => i = j

\* C17: in every state reached through create, fromJSON and the whitelist
\* operations, neither ipWhitelist.addresses nor domainWhitelist.domains
\* contains the same entry twice.
C17_NoDuplicates ==
  Live => (NoDuplicates(ipAddresses) /\ NoDuplicates(domainNames))

\* the number of occurrences of x in the list
Occurrences(list, x) == Cardinality({i \in 1..Len(list) : list[i] = x})

\* C18: addIP(e) with a valid e succeeds; it appends the trimmed e, once,
\* when the list does not hold it and leaves the list as it is when it
\* does, so that a second addIP(e) changes nothing; removeIP(e) of a
\* non-member succeeds and leaves the list and its order unchanged; the
\* same holds of addDomain and removeDomain.
C18_AddIdempotentRemoveNoOp ==
  [][/\ op'.name \in {"addIP", "removeIP"} =>
        \A ip \in IPInputs :
          LET e == Trim(ip)
          IN  /\ (addIP(ip) /\ assertString(ip) /\ validateIP(e)) =>
                   /\ op' = Done("addIP", TRUE)
                   /\ ipAddresses' =
                        IF Includes(ipAddresses, e) THEN ipAddresses
                        ELSE ipAddresses \o <<e>>
                   /\ Includes(ipAddresses', e)
                   /\ ~Includes(ipAddresses, e) =>
                        Occurrences(ipAddresses', e) = 1
              /\ (removeIP(ip) /\ assertString(ip)
                    /\ ~Includes(ipAddresses, e)) =>
                   /\ op' = Done("removeIP", TRUE)
                   /\ ipAddresses' = ipAddresses
     /\ op'.name \in {"addDomain", "removeDomain"} =>
        \A domain \in DomainInputs :
          LET e == Trim(domain)
          IN  /\ (addDomain(domain) /\ assertString(domain)
                    /\ validateDomain(e)) =>
                   /\ op' = Done("addDomain", TRUE)
                   /\ domainNames' =
                        IF Includes(domainNames, e) THEN domainNames
                        ELSE domainNames \o <<e>>
                   /\ Includes(domainNames', e)
                   /\ ~Includes(domainNames, e) => Occurrences(domainNames', e) = 1
              /\ (removeDomain(domain) /\ assertString(domain)
                    /\ ~Includes(domainNames, e)) =>
                   /\ op' = Done("removeDomain", TRUE)
                   /\ domainNames' = domainNames]_vars

C18_Witness ==
  /\ op = Done("addIP", TRUE)
  /\ Len(ipAddresses) = 2
  /\ Occurrences(ipAddresses, IPv4Address) = 1
  /\ ipAddresses[2] = IPv4Address

\* C19: enableIPWhitelist / disableIPWhitelist change nothing of the
\* settings but ipWhitelist.enabled, and addIP / removeIP / setIPWhitelist
\* / clearIPWhitelist nothing but ipWhitelist.addresses; the same holds of
\* the domain whitelist flag and its list.
C19_FlagAndListIndependent ==
  [][/\ op'.name \in {"enableIPWhitelist", "disableIPWhitelist"} =>
          settings' =
            [settings EXCEPT
               !.ipWhitelist.enabled = (op'.name = "enableIPWhitelist")]
     /\ op'.name \in {"addIP", "removeIP", "setIPWhitelist",
                       "clearIPWhitelist"} =>
          settings' = [settings EXCEPT !.ipWhitelist.addresses = ipAddresses']
     /\ op'.name \in {"enableDomainWhitelist", "disableDomainWhitelist"} =>
          settings' =
            [settings EXCEPT
               !.domainWhitelist.enabled =
                 (op'.name = "enableDomainWhitelist")]
     /\ op'.name \in {"addDomain", "removeDomain", "setDomainWhitelist",
                       "clearDomainWhitelist"} =>
          settings' = [settings EXCEPT !.domainWhitelist.domains = domainNames']]_vars

C19_Witness ==
  /\ op = Done("disableIPWhitelist", TRUE)
  /\ ~settings.ipWhitelist.enabled
  /\ Len(ipAddresses) = 2
  /\ settings.domainWhitelist.enabled

\* four octets of one to three digits, each at most 255
WellFormedIPv4(text) ==
  LET octets == Split(text, ".")
  IN  /\ Len(octets) = 4
      /\ \A i \in 1..4 :
           /\ Len(octets[i]) \in 1..3
           /\ \A j \in 1..Len(octets[i]) : octets[i][j] \in Digits
           /\ RadixValue(octets[i], 10) <= 255

\* hexadecimal digits and colons, with at least one colon
WellFormedIPv6(text) ==
  /\ \A i \in 1..Len(text) : text[i] \in Digits \cup HexLetters \cup {":"}
  /\ \E i \in 1..Len(text) : text[i] = ":"

\* one address, one "/", and a prefix length of digits only within the
\* range of the address family
WellFormedCIDR(text) ==
  LET parts == Split(text, "/")
  IN  /\ Len(parts) = 2
      /\ Len(parts[2]) \in 1..3
      /\ \A j \in 1..Len(parts[2]) : parts[2][j] \in Digits
      /\ \/ WellFormedIPv4(parts[1]) /\ RadixValue(parts[2], 10) <= 32
         \/ WellFormedIPv6(parts[1]) /\ RadixValue(parts[2], 10) <= 128

WellFormedIP(text) ==
  WellFormedIPv4(text) \/ WellFormedIPv6(text) \/ WellFormedCIDR(text)

\* C20: addIP(s), and setIPWhitelist for each entry, succeeds only if the
\* trimmed s is an IPv4 address, an IPv6 address or a CIDR block of one
\* address, one "/" and an integer prefix length in range, so every stored
\* address is well formed.
C20_OnlyWellFormedAddresses ==
  /\ [][/\ op' = Done("addIP", TRUE) =>
              \A ip \in IPInputs : (addIP(ip) => WellFormedIP(Trim(ip)))
         /\ op' = Done("setIPWhitelist", TRUE) =>
              \A list \in ListsOf(IPListEntries) :
                ((ipAddresses' = TrimAll(list) /\ setIPWhitelist(list)) =>
                   \A i \in 1..Len(list) : WellFormedIP(Trim(list[i])))]_vars
  /\ [](Live => \A i \in 1..Len(ipAddresses) : WellFormedIP(ipAddresses[i]))

\* one DNS label: alphanumeric characters with hyphens inside only
WellFormedLabel(l) ==
  /\ Len(l) \in 1..63
  /\ l[1] \in Letters \cup Digits
  /\ l[Len(l)] \in Letters \cup Digits
  /\ \A i \in 1..Len(l) : l[i] \in Letters \cup Digits \cup {"-"}

\* the bare wildcard, or labels separated by dots, the last one of at least
\* two characters, after at most one leading "*."
WellFormedDomain(text) ==
  LET wild   == Len(text) >= 2 /\ text[1] = "*" /\ text[2] = "."
      rest   == IF wild THEN SubSeq(text, 3, Len(text)) ELSE text
      labels == Split(rest, ".")
  IN  \/ text = <<"*">>
      \/ /\ Len(labels) >= 2
         /\ \A i \in 1..Len(labels) : WellFormedLabel(labels[i])
         /\ Len(labels[Len(labels)]) >= 2

\* C21: addDomain(d) succeeds exactly when the trimmed d is the bare
\* wildcard or a dot-separated sequence of labels, each alphanumeric with
\* internal hyphens, the last of at least two characters, after at most one
\* leading "*."; so a name with a digit in an inner label is accepted.
C21_AddDomainAcceptsDNSNames ==
  [][op'.name = "addDomain" =>
       \A domain \in DomainInputs :
         addDomain(domain) =>
           ((op' = Done("addDomain", TRUE)) <=> WellFormedDomain(Trim(domain)))]_vars

\* C22: in every state reached through create (with settings overrides),
\* fromJSON, setAllowedMethods and clearAllowedMethods, allowedMethods holds
\* only the uppercase tokens GET, POST, PUT, PATCH, DELETE, HEAD, OPTIONS;
\* setAllowedMethods fails exactly when an entry, in upper case, is outside
\* that set, and on success stores the uppercase form of the list in order.
C22_AllowedMethodsUppercase ==
  /\ [](Live =>
         \A i \in 1..Len(settings.allowedMethods) :
           settings.allowedMethods[i] \in HTTPMethods)
  /\ [][op'.name = "setAllowedMethods" =>
          \A methods \in MethodListInputs :
            setAllowedMethods(methods) =>
              /\ (op' = Done("setAllowedMethods", FALSE)) <=>
                   (\E i \in 1..Len(methods) :
                      toUpperCase(methods[i]) \notin HTTPMethods)
              /\ op'.ok =>
                   (settings'.allowedMethods =
                      [i \in 1..Len(methods) |-> toUpperCase(methods[i])])]_vars

\* the value of the object r: nothing for null
Content(r) == IF r = NoRef THEN {} ELSE {heap[r]}

\* what the getters and toJSON of instance i show of the part
Observed(i) == Content(instances[i].ref)

\* C23: the value a getter or toJSON returns is an object of its own, and
\* a change the caller makes to it (a push, an edited property, a Date set
\* to another time) leaves what the getters and toJSON of every instance
\* show as it was.
C23_GettersReturnCopies ==
  /\ [](got # NoRef => \A i \in Names : instances[i].ref # got)
  /\ [][op'.name = "mutateGot" =>
          \A i \in Names : Observed(i)' = Observed(i)]_vars

C23_Witness ==
  /\ op = Done("mutateGot", TRUE)
  /\ part = "addresses"
  /\ Includes(heap[got].items, <<"x">>)
  /\ \E i \in Names :
       /\ instances[i].built
       /\ heap[instances[i].ref].items = <<IPv4Address>>

\* C25: two instances built from the same input are independent: addIP,
\* addDomain, setMetadata, deleteMetadata or setExpiry on one of them
\* changes neither what the other one shows nor the caller's input object,
\* and a change the caller makes to its input object afterwards changes
\* nothing of an instance already built.
C25_InstancesOwnTheirSettings ==
  [][/\ (actor' \in Names /\ op'.name \notin {"create", "fromJSON"}) =>
          /\ \A i \in Names \ {actor'} :
               instances[i].built => (Observed(i)' = Observed(i))
          /\ Content(input)' = Content(input)
     /\ op'.name = "mutateInput" =>
          \A i \in Names :
            instances[i].built => (Observed(i)' = Observed(i))]_vars

\* whether the text is the encoding of a digest
IsDigestEncoding(text) == text # <<>> /\ Head(text) = "#"

\* C24: in every state of an instance, built by create or by fromJSON and
\* after any rotate calls, the stored hash (the apiKey getter and the
\* api_key of toJSON) is a non-empty, well-formed digest encoding.
C24_StoredHashIsDigest ==
  Live =>
    /\ IsDigestEncoding(api_key)
    /\ IsDigestEncoding(toJSON(self).api_key)

\* C26: whenever rawApiKey is defined, the stored hash is the hash of
\* rawApiKey and verify(rawApiKey) is true; an operation on an instance
\* that changes the stored hash also stores the raw key it is the hash of,
\* and one that changes rawApiKey also stores its hash.
C26_RawKeyMatchesHash ==
  /\ [](Live =>
         \A raw \in raw_api_key :
           api_key = sha256(raw) /\ verify(raw) = {TRUE})
  /\ [][Live =>
          /\ api_key' # api_key =>
               (raw_api_key' # Undefined /\ raw_api_key' # raw_api_key)
          /\ (api_key' # api_key \/ raw_api_key' # raw_api_key) =>
               (\A raw \in raw_api_key' : api_key' = sha256(raw))]_vars

C26_Witness ==
  /\ origin = "create"
  /\ op = Done("rotate", TRUE)
  /\ raw_api_key = {<<"a", "a">>}
  /\ api_key = sha256(<<"a", "a">>)
  /\ verify(<<"a", "a">>) = {TRUE}

\* the mutators of the settings
SettingsMutators ==
  {"setRateLimit", "resetRateLimit",
   "enableIPWhitelist", "disableIPWhitelist", "addIP", "removeIP",
   "setIPWhitelist", "clearIPWhitelist",
   "enableDomainWhitelist", "disableDomainWhitelist", "addDomain",
   "removeDomain", "setDomainWhitelist", "clearDomainWhitelist",
   "setAllowedMethods", "clearAllowedMethods",
   "setMetadata", "deleteMetadata", "clearMetadata"}

\* C27: rotate leaves name, restricted, validUntil and settings unchanged;
\* rename, setExpiry, restrict, unrestrict and revoke leave the stored
\* hash, rawApiKey and settings unchanged; every settings mutator leaves
\* name, the stored hash, rawApiKey, restricted, validUntil and the status
\* unchanged.
C27_MutatorsConfined ==
  [][Live =>
       /\ op'.name = "rotate" =>
            UNCHANGED <<name, restricted, valid_until, settings>>
       /\ op'.name \in {"rename", "setExpiry", "restrict", "unrestrict",
                         "revoke"} =>
            UNCHANGED <<api_key, raw_api_key, settings>>
       /\ op'.name \in SettingsMutators =>
            /\ UNCHANGED <<name, api_key, raw_api_key, restricted, valid_until>>
            /\ status' = status]_vars

C27_Witness ==
  /\ op = Done("setMetadata", TRUE)
  /\ rotated
  /\ restricted
  /\ valid_until = {MaxTime + 1}
  /\ name = <<"a">>
  /\ raw_api_key # Undefined
  /\ settings.ipWhitelist.enabled

\* C28: when the clock advances and no mutator is called, isActive can
\* change only from true to false and the status only from 'active' or
\* 'restricted' to 'expired'; an 'expired' or 'revoked' key stays so.
C28_TimeNeverActivates ==
  [][(Live /\ op' = Done("tick", TRUE)) =>
       /\ fields' = fields
       /\ isActive' => isActive
       /\ status' # status =>
            (status \in {"active", "restricted"} /\ status' = "expired")
       /\ status \in {"expired", "revoked"} => (status' = status)]_vars

C28_Witness ==
  /\ op = Done("tick", TRUE)
  /\ restricted
  /\ ~revoked
  /\ valid_until = {MaxTime - 1}
  /\ now = MaxTime
  /\ status = "expired"
  /\ ~isActive

\* C29 as stated: with validUntil set, at every clock value, msUntilExpiry
\* is 0 if and only if isExpired() is true, that is if and only if the
\* status is 'expired' or 'revoked'.
C29_CountdownZeroIffExpired ==
  (Live /\ valid_until # Null) =>
    /\ (msUntilExpiry = 0) <=> isExpired
    /\ isExpired <=> (status \in {"expired", "revoked"})

\* C29 amended: with validUntil set, msUntilExpiry is 0 exactly when the
\* clock is at or past validUntil and isExpired() is true exactly when the
\* clock is past it: an expired key has countdown 0, a positive countdown
\* means not expired, and at the instant equal to validUntil the countdown
\* is 0 while the key is not yet expired.
C29_CountdownZeroFromExpiryInstant ==
  (Live /\ valid_until # Null) =>
    /\ (msUntilExpiry = 0) <=> (now >= The(valid_until))
    /\ isExpired <=> (now > The(valid_until))
    /\ isExpired <=> (status \in {"expired", "revoked"})
    /\ isExpired => (msUntilExpiry = 0)
    /\ (now = The(valid_until)) => (msUntilExpiry = 0 /\ ~isExpired)

C29_Witness ==
  /\ Live
  /\ valid_until = {now}
  /\ msUntilExpiry = 0
  /\ ~isExpired
  /\ status = "active"

====
